---- MODULE Spec2Model ----
(***************************************************************************)
(* Demand approval workflow of the IT Demand Management application.      *)
(*                                                                         *)
(* The model has two parts.                                                *)
(*  - The stage helpers (STAGE_FLOW, stageIndex, requiredRoleForStage,     *)
(*    nextStageFrom), the guard userCanActOnSelected and the patches that  *)
(*    approveSelected / rejectSelected build are pure operators.           *)
(*  - The component state of every browser session (currentRole, demands,  *)
(*    selectedDemand), the rows of the external store and the HTTP calls   *)
(*    in flight (updateDemand is a GET followed by a PUT) form the state   *)
(*    machine Spec.  SpecFn applies the pure operators to inputs drawn     *)
(*    from bounded sets.                                                   *)
(***************************************************************************)
EXTENDS Integers, Sequences, FiniteSets, TLC

\* store          the rows of the external store, by id (NoDemand: no such row)
\* nextId         the id the store gives to the next row created
\* currentRole    per session, the role chosen in the role switcher
\* demands        per session, the rows of the local list, by id
\* selectedDemand per session, the demand of the details modal (NoDemand: null)
\* ops            the listDemands / updateDemand calls awaiting an HTTP response
\* approvalChain  per demand, history of the approvals stored (see extendChain)
\* alert          the alert() a caller of updateDemand raised at the step just
\*                taken (NoAlert when the step raised none)
\* fnArg, fnRes   input and result of the operators applied by SpecFn
VARIABLES store, nextId, currentRole, demands, selectedDemand, ops, approvalChain,
          alert, fnArg, fnRes

vars == <<store, nextId, currentRole, demands, selectedDemand, ops, approvalChain,
          alert, fnArg, fnRes>>

sysVars == <<store, nextId, currentRole, demands, selectedDemand, ops, approvalChain,
            alert>>

fnVars == <<fnArg, fnRes>>

(***************************************************************************)
(* Bounds of the model.                                                    *)
(***************************************************************************)
\* browser sessions (actors) using the application at the same time
NumSessions == 2

\* demands the store can hold
MaxDemands == 1

\* updateDemand calls one session has in flight at the same time
MaxPending == 1

Sessions == 1..NumSessions

DemandIds == 1..MaxDemands

(***************************************************************************)
(* JavaScript values.  Null stands for null and undefined alike: every     *)
(* operator the code applies to a stage (??, ||, ===) treats them alike.   *)
(* Absent marks a key a patch object does not carry.                       *)
(***************************************************************************)
Null == "<null>"

Absent == "<absent>"

\* a ?? b
Coalesce(a, b) == IF a = Null THEN b ELSE a

\* a || b : null, undefined and the empty string are falsy
Truthy(a) == a # Null /\ a # ""

OrElse(a, b) == IF Truthy(a) THEN a ELSE b

Min(a, b) == IF a <= b THEN a ELSE b

Max(a, b) == IF a >= b THEN a ELSE b

\* s.toLowerCase(), on the strings the model uses: the stage keys as written,
\* in upper case and with surrounding blanks; every other string of the model
\* has no upper-case letter
toLowerCase(s) ==
    CASE s \in {"Intake", "INTAKE"} -> "intake"
      [] s \in {"Screening", "SCREENING"} -> "screening"
      [] s = " Screening " -> " screening "
      [] s = "Assessment" -> "assessment"
      [] s = "Evaluation" -> "evaluation"
      [] s \in {"Authorization", "AUTHORIZATION"} -> "authorization"
      [] s = "Business Case Development" -> "business case development"
      [] s \in {"Service Portfolio Entry", "Service portfolio entry"}
             -> "service portfolio entry"
      [] s = "Service Implementation/Monitoring" -> "service implementation/monitoring"
      [] s = "Closure" -> "closure"
      [] s = "Closure " -> "closure "
      [] s = "Unknown" -> "unknown"
      [] OTHER -> s

\* s.trim(), on the strings the model uses: the ones with a leading or a
\* trailing blank lose it, every other string of the model has none
trim(s) ==
    CASE s = " Screening " -> "Screening"
      [] s = " screening " -> "screening"
      [] s = "Closure " -> "Closure"
      [] s = "closure " -> "closure"
      [] s = " " -> ""
      [] OTHER -> s

(***************************************************************************)
(* Types                                                                   *)
(***************************************************************************)
DemandStatus == {"Draft", "Submitted", "Under Review", "Approved", "Rejected", "Completed"}

Role == {"Demand Requestor", "BU Head", "ITPMO", "DBR"}

\* the description typed into the submit form, and the ones typed into the
\* prompt of handleEdit
FormDescription == "d0"

Descriptions == {"d0", "d1"}

\* the signed-in user (requestor of the demands created, last_modified_by of
\* the edits), the department the forms send, the date the store gives a row
currentUserName == "user"

FormDepartment == "Information Technology"

StoreDate == "t0"

\* A demand row: the fields the workflow reads (status, the stage under either
\* of its two names) and the fields updateDemand has to carry over.  The
\* remaining columns (title, type, priority, costs, ...) are copied by
\* updateDemand the way requestor and department are.
\* id = 0 is "no demand" (a null selectedDemand, a missing row).
NoDemand == [id |-> 0, status |-> Null, current_stage |-> Null,
             currentStage |-> Null, description |-> Null, requestor |-> Null,
             department |-> Null, created_date |-> Null, last_modified_by |-> Null]

(***************************************************************************)
(* Stage helpers (sequential flow)                                         *)
(***************************************************************************)
STAGE_FLOW == <<
    [stage |-> "Intake", role |-> "Demand Requestor"],
    [stage |-> "Screening", role |-> "BU Head"],
    [stage |-> "Assessment", role |-> "ITPMO"],
    [stage |-> "Authorization", role |-> "DBR"],
    [stage |-> "Service Portfolio Entry", role |-> Null] >>

\* STAGE_FLOW[i] with the 0-based index of the code
FlowAt(i) == STAGE_FLOW[i + 1]

\* STAGE_FLOW.findIndex((s) => s.stage === stage): first match, -1 when none
FlowFindIndex(stage) ==
    IF \E k \in 1..Len(STAGE_FLOW) : STAGE_FLOW[k].stage = stage
    THEN (CHOOSE k \in 1..Len(STAGE_FLOW) :
             /\ STAGE_FLOW[k].stage = stage
             /\ \A j \in 1..(k - 1) : STAGE_FLOW[j].stage # stage) - 1
    ELSE -1

\* stageIndex that sends an unresolved key to the last stage
stageIndexFallbackLast(stage) ==
    LET i == FlowFindIndex(Coalesce(stage, "Intake"))
    IN  IF i >= 0 THEN i ELSE Len(STAGE_FLOW) - 1

stageIndex(stage) ==
    LET i == FlowFindIndex(Coalesce(stage, "Intake"))
    IN  IF i >= 0 THEN i ELSE 0

\* requiredRoleForStage that returns the role of the following stage
requiredRoleShifted(stage) ==
    FlowAt(Min(stageIndex(stage) + 1, Len(STAGE_FLOW) - 1)).role

requiredRoleForStage(stage) == FlowAt(stageIndex(stage)).role

\* nextStageFrom that wraps to the first stage after the last one
nextStageWrapping(stage) ==
    LET i == stageIndex(stage)
    IN  FlowAt((i + 1) % Len(STAGE_FLOW)).stage

\* nextStageFrom advancing by two
nextStageSkipping(stage) ==
    LET i == stageIndex(stage)
    IN  FlowAt(Min(i + 2, Len(STAGE_FLOW) - 1)).stage

nextStageFrom(stage) ==
    LET i == stageIndex(stage)
    IN  FlowAt(Min(i + 1, Len(STAGE_FLOW) - 1)).stage

(***************************************************************************)
(* The stage table and the progress view (workflow.ts)                     *)
(***************************************************************************)
WORKFLOW_STAGES == <<
    [id |-> 1, key |-> "Intake", name |-> "Demand Capture",
     description |-> "Logging of new business demand"],
    [id |-> 2, key |-> "Screening", name |-> "Demand Qualification",
     description |-> "Assess business need, initial validation for business alignment"],
    [id |-> 3, key |-> "Assessment", name |-> "Demand Assessment",
     description |-> "PMO or Portfolio team assesses feasibility, risk, urgency"],
    [id |-> 4, key |-> "Evaluation", name |-> "Demand Evaluation",
     description |-> "Deeper analysis of impact, value, risk, capacity"],
    [id |-> 5, key |-> "Authorization", name |-> "Demand Prioritization & Authorization",
     description |-> "Formal evaluation/prioritization by Demand Board/Service Portfolio Board"],
    [id |-> 6, key |-> "Business Case Development", name |-> "Business Case Development",
     description |-> "Build formal business case for strategic/complex demands"],
    [id |-> 7, key |-> "Service Portfolio Entry",
     name |-> "Service Portfolio Entry / Service Pipeline",
     description |-> "Approved demand moves into service/project portfolio"],
    [id |-> 8, key |-> "Service Implementation/Monitoring",
     name |-> "Service Implementation / Monitoring",
     description |-> "Demand delivered as project/change, status tracked"],
    [id |-> 9, key |-> "Closure", name |-> "Demand Closure",
     description |-> "Closure & Feedback"] >>

\* WORKFLOW_STAGES.findIndex((s) => s.key.toLowerCase() === key)
WorkflowFindIndex(key) ==
    IF \E k \in 1..Len(WORKFLOW_STAGES) : toLowerCase(WORKFLOW_STAGES[k].key) = key
    THEN (CHOOSE k \in 1..Len(WORKFLOW_STAGES) :
             /\ toLowerCase(WORKFLOW_STAGES[k].key) = key
             /\ \A j \in 1..(k - 1) : toLowerCase(WORKFLOW_STAGES[j].key) # key) - 1
    ELSE -1

\* const key = String(currentKey ?? "Intake").toLowerCase().trim();
\* const currentIndex = Math.max(0, WORKFLOW_STAGES.findIndex(...))
currentIndex(currentKey) ==
    LET key == trim(toLowerCase(Coalesce(currentKey, "Intake")))
    IN  Max(0, WorkflowFindIndex(key))

\* buildWorkflow that marks the current stage completed too
buildWorkflowInclusive(currentKey) ==
    [i \in 1..Len(WORKFLOW_STAGES) |->
        [id |-> WORKFLOW_STAGES[i].id,
         name |-> WORKFLOW_STAGES[i].name,
         description |-> WORKFLOW_STAGES[i].description,
         completed |-> (i - 1) <= currentIndex(currentKey),
         current |-> (i - 1) = currentIndex(currentKey)]]

\* WORKFLOW_STAGES.map((s, i) => ({ ..., completed: i < currentIndex,
\*                                  current: i === currentIndex }))
buildWorkflow(currentKey) ==
    [i \in 1..Len(WORKFLOW_STAGES) |->
        [id |-> WORKFLOW_STAGES[i].id,
         name |-> WORKFLOW_STAGES[i].name,
         description |-> WORKFLOW_STAGES[i].description,
         completed |-> (i - 1) < currentIndex(currentKey),
         current |-> (i - 1) = currentIndex(currentKey)]]

(***************************************************************************)
(* The guard and the patches of approve / reject                           *)
(***************************************************************************)
\* userCanActOnSelected without the status test
userCanActAnyStatus(sel, role) ==
    IF sel.id = 0
    THEN FALSE
    ELSE requiredRoleForStage(OrElse(sel.current_stage, sel.currentStage)) = role

\* userCanActOnSelected without the role test
userCanActAnyRole(sel, role) ==
    IF sel.id = 0
    THEN FALSE
    ELSE sel.status = "Submitted" \/ sel.status = "Under Review"

\* selectedDemand ? requiredRoleForStage(current_stage || currentStage) === currentRole
\*                  && (status === "Submitted" || status === "Under Review") : false
userCanActOnSelected(sel, role) ==
    IF sel.id = 0
    THEN FALSE
    ELSE /\ requiredRoleForStage(OrElse(sel.current_stage, sel.currentStage)) = role
         /\ (sel.status = "Submitted" \/ sel.status = "Under Review")

\* the Approve / Reject buttons of the approvals tab are rendered
ControlsOffered(sel, role) ==
    /\ sel.id # 0
    /\ Truthy(OrElse(sel.current_stage, sel.currentStage))
    /\ userCanActOnSelected(sel, role)

\* const current = current_stage || currentStage || "Intake"
currentStageOf(sel) == OrElse(OrElse(sel.current_stage, sel.currentStage), "Intake")

\* isLastApprover with > in place of >=
isLastApproverStrict(sel) ==
    stageIndex(OrElse(OrElse(sel.current_stage, sel.currentStage), "Intake"))
        > FlowFindIndex("Authorization")

\* i >= STAGE_FLOW.findIndex((s) => s.stage === "Authorization")
isLastApprover(sel) == stageIndex(currentStageOf(sel)) >= FlowFindIndex("Authorization")

\* approvePatch whose final approval carries the status alone
approvePatchStatusOnly(sel) ==
    IF isLastApprover(sel)
    THEN [status |-> "Approved", current_stage |-> Absent, description |-> Absent,
          last_modified_by |-> Absent]
    ELSE [status |-> "Under Review", current_stage |-> nextStageFrom(currentStageOf(sel)),
          description |-> Absent,
          last_modified_by |-> Absent]

approvePatch(sel) ==
    IF isLastApprover(sel)
    THEN [status |-> "Approved", current_stage |-> nextStageFrom(currentStageOf(sel)),
          description |-> Absent,
          last_modified_by |-> Absent]
    ELSE [status |-> "Under Review", current_stage |-> nextStageFrom(currentStageOf(sel)),
          description |-> Absent,
          last_modified_by |-> Absent]

\* rejectPatch that sends the demand back to the first stage
rejectPatchToIntake ==
    [status |-> "Rejected", current_stage |-> "Intake", description |-> Absent,
          last_modified_by |-> Absent]

rejectPatch == [status |-> "Rejected", current_stage |-> Absent, description |-> Absent,
          last_modified_by |-> Absent]

\* { description, last_modified_by: currentUserName }
editPatch(description) ==
    [status |-> Absent, current_stage |-> Absent, description |-> description,
     last_modified_by |-> currentUserName]

(***************************************************************************)
(* The store API (createDemand, getDemand, updateDemand, listDemands)      *)
(***************************************************************************)
\* createDemand: the payload of the POST, and so the row the store creates
createPayload(id, form) ==
    [id |-> id,
     status |-> Coalesce(form.status, "Draft"),
     current_stage |-> Coalesce(form.current_stage, "Intake"),
     currentStage |-> Null,
     description |-> Coalesce(form.description, ""),
     requestor |-> Coalesce(form.requestor, "John Smith"),
     department |-> Coalesce(form.department, "IT Operations"),
     created_date |-> StoreDate,
     last_modified_by |-> Null]

\* const m = { ...cur, ...patch }
mergeRow(cur, patch) ==
    [id |-> cur.id,
     status |-> IF patch.status # Absent THEN patch.status ELSE cur.status,
     current_stage |-> IF patch.current_stage # Absent THEN patch.current_stage
                       ELSE cur.current_stage,
     currentStage |-> cur.currentStage,
     description |-> IF patch.description # Absent THEN patch.description
                     ELSE cur.description,
     requestor |-> cur.requestor,
     department |-> cur.department,
     created_date |-> cur.created_date,
     last_modified_by |-> IF patch.last_modified_by # Absent
                          THEN patch.last_modified_by ELSE cur.last_modified_by]

\* updateDemand: the full-row payload of the PUT, built from the row read.
\* The payload has no currentStage key and no last_modified_by key (Absent).
updatePayload(id, cur, patch) ==
    LET m == mergeRow(cur, patch)
    IN  [id |-> id,
         status |-> Coalesce(m.status, Null),
         current_stage |-> Coalesce(Coalesce(m.current_stage, m.currentStage), Null),
         currentStage |-> Absent,
         description |-> Coalesce(m.description, Null),
         requestor |-> Coalesce(m.requestor, Null),
         department |-> Coalesce(m.department, Null),
         created_date |-> Coalesce(cur.created_date, Null),
         last_modified_by |-> Absent]

\* the row a full-row PUT leaves in the store, which is also the response:
\* a column the payload does not carry is nulled
storedRow(payload) ==
    [k \in DOMAIN payload |->
        IF k = "id" THEN payload[k]
        ELSE IF payload[k] = Absent THEN Null ELSE payload[k]]

\* listDemands: the rows the store holds
listDemands == [id \in DemandIds |-> store[id]]

\* { ...selectedDemand, ...updated }: the keys of the response win
mergeSelected(sel, updated) == [updated EXCEPT !.currentStage = sel.currentStage]

\* rows.map((r) => (r.id === id ? row : r))
replaceRow(rows, id, row) ==
    [k \in DemandIds |-> IF rows[k].id # 0 /\ rows[k].id = id THEN row ELSE rows[k]]

(***************************************************************************)
(* Identity and role-based access (useAADUser, RBACProvider, permissions,  *)
(* DemandAccess, useSecureAPI).  Arrays are sequences.                     *)
(***************************************************************************)
\* array.includes(x)
includes(array, x) == \E i \in 1..Len(array) : array[i] = x

\* [...new Set(array)]: the first occurrence of every element, in order
RECURSIVE dedupe(_)
dedupe(array) ==
    IF array = << >> THEN << >>
    ELSE LET init == dedupe(SubSeq(array, 1, Len(array) - 1))
             last == array[Len(array)]
         IN  IF includes(init, last) THEN init ELSE Append(init, last)

RbacRole == {"Demand Requestor", "BU Head", "ITPMO", "DBR", "Admin"}

Permission ==
    {"demand.create", "demand.read", "demand.update", "demand.delete",
     "demand.approve", "demand.reject", "demand.assign", "reports.view",
     "reports.export", "admin.users", "admin.system"}

ROLE_PERMISSIONS == <<
    [role |-> "Demand Requestor",
     permissions |-> <<"demand.create", "demand.read", "demand.update">>,
     inherits |-> << >>],
    [role |-> "BU Head",
     permissions |-> <<"demand.read", "demand.approve", "demand.reject", "reports.view">>,
     inherits |-> <<"Demand Requestor">>],
    [role |-> "ITPMO",
     permissions |-> <<"demand.read", "demand.approve", "demand.reject", "demand.assign",
                       "reports.view", "reports.export">>,
     inherits |-> <<"BU Head">>],
    [role |-> "DBR",
     permissions |-> <<"demand.read", "demand.approve", "demand.reject", "reports.view",
                       "reports.export">>,
     inherits |-> <<"ITPMO">>],
    [role |-> "Admin",
     permissions |-> <<"demand.create", "demand.read", "demand.update", "demand.delete",
                       "demand.approve", "demand.reject", "demand.assign", "reports.view",
                       "reports.export", "admin.users", "admin.system">>,
     inherits |-> << >>] >>

\* getRolePermissions without the inheritance loop
getRolePermissionsOwn(role) ==
    IF \A i \in 1..Len(ROLE_PERMISSIONS) : ROLE_PERMISSIONS[i].role # role
    THEN << >>
    ELSE dedupe(ROLE_PERMISSIONS[CHOOSE i \in 1..Len(ROLE_PERMISSIONS) :
                                    ROLE_PERMISSIONS[i].role = role].permissions)

RECURSIVE getRolePermissions(_), inheritedPermissions(_)

\* the loop over roleConfig.inherits: the permissions of the inherited roles,
\* in the order of inherits
inheritedPermissions(inherits) ==
    IF inherits = << >> THEN << >>
    ELSE getRolePermissions(Head(inherits)) \o inheritedPermissions(Tail(inherits))

getRolePermissions(role) ==
    IF \A i \in 1..Len(ROLE_PERMISSIONS) : ROLE_PERMISSIONS[i].role # role
    THEN << >>
    ELSE LET roleConfig ==
                 ROLE_PERMISSIONS[CHOOSE i \in 1..Len(ROLE_PERMISSIONS) :
                                     /\ ROLE_PERMISSIONS[i].role = role
                                     /\ \A j \in 1..(i - 1) :
                                            ROLE_PERMISSIONS[j].role # role]
         IN  dedupe(roleConfig.permissions \o inheritedPermissions(roleConfig.inherits))

\* userRoles.some(role => getRolePermissions(role).includes(permission))
hasPermission(userRoles, permission) ==
    \E i \in 1..Len(userRoles) : includes(getRolePermissions(userRoles[i]), permission)

\* a roles claim that is missing (undefined), as opposed to an empty array
NoClaim == {"<undefined>"}

\* accounts[0] when nobody is signed in
SignedOut == [signedIn |-> FALSE, name |-> Null, username |-> Null, roles |-> NoClaim]

\* useAADUser: account is the MSAL account (SignedOut when there is none):
\* its name, its username and the roles claim of its id token (NoClaim when
\* the token carries none).  The accounts of the model carry no other name or
\* email claim.  The object returned has no roles property.
useAADUser(account) ==
    IF ~account.signedIn
    THEN [name |-> "Unknown User", email |-> "", claims |-> [roles |-> NoClaim],
          isAuthenticated |-> FALSE]
    ELSE [name |-> OrElse(account.name, OrElse(account.username, "Unknown User")),
          email |-> OrElse(account.username, ""),
          claims |-> [roles |-> account.roles],
          isAuthenticated |-> TRUE]

\* aadUser?.roles : the roles property of the object (undefined when the
\* object has none)
rolesProperty(aadUser) == IF "roles" \in DOMAIN aadUser THEN aadUser.roles ELSE NoClaim

\* aadUser?.roles?.includes(r) and !aadUser?.roles?.length
claimIncludes(claim, r) == claim # NoClaim /\ r \in claim

claimEmpty(claim) == claim = NoClaim \/ claim = {}

pushIf(roles, cond, role) == IF cond THEN Append(roles, role) ELSE roles

mapAADRolesToAppRoles(aadUser) ==
    LET claim == rolesProperty(aadUser)
        r1 == pushIf(<< >>, claimIncludes(claim, "DemandRequestor") \/ claimEmpty(claim),
                     "Demand Requestor")
        r2 == pushIf(r1, claimIncludes(claim, "BUHead"), "BU Head")
        r3 == pushIf(r2, claimIncludes(claim, "ITPMO"), "ITPMO")
        r4 == pushIf(r3, claimIncludes(claim, "DBR"), "DBR")
        r5 == pushIf(r4, claimIncludes(claim, "Admin"), "Admin")
    IN  IF Len(r5) > 0 THEN r5 ELSE <<"Demand Requestor">>

\* RBACProvider: the user context (its functions are the operators below)
RBACProvider(account) ==
    LET aadUser == useAADUser(account)
    IN  [id |-> OrElse(aadUser.email, "anonymous"),
         name |-> OrElse(aadUser.name, "Unknown User"),
         email |-> OrElse(aadUser.email, ""),
         roles |-> IF aadUser.isAuthenticated THEN mapAADRolesToAppRoles(aadUser)
                   ELSE << >>,
         isAuthenticated |-> aadUser.isAuthenticated]

canAccessDemand(rbac, demand) ==
    IF hasPermission(rbac.roles, "admin.system") THEN TRUE
    ELSE IF demand.requestor = rbac.name \/ demand.requestor = rbac.email THEN TRUE
    ELSE IF hasPermission(rbac.roles, "demand.approve") THEN TRUE
    ELSE FALSE

canModifyDemand(rbac, demand) ==
    IF hasPermission(rbac.roles, "admin.system") THEN TRUE
    ELSE IF /\ (demand.requestor = rbac.name \/ demand.requestor = rbac.email)
            /\ demand.status = "Draft"
         THEN hasPermission(rbac.roles, "demand.update")
         ELSE FALSE

\* DemandAccess: hasAccess (the children are rendered)
DemandAccess(rbac, demand, action) ==
    CASE action = "view" -> canAccessDemand(rbac, demand)
      [] action = "edit" -> canModifyDemand(rbac, demand)
      [] action = "delete" -> /\ canModifyDemand(rbac, demand)
                              /\ hasPermission(rbac.roles, "demand.delete")
      [] action = "approve" -> /\ hasPermission(rbac.roles, "demand.approve")
                               /\ (demand.status = "Submitted"
                                      \/ demand.status = "Under Review")
      [] OTHER -> FALSE

\* secureCall that tests the permission before the authentication
secureCallPermissionFirst(rbac, requiredPermission, resourceCheck) ==
    IF ~hasPermission(rbac.roles, requiredPermission)
    THEN [started |-> FALSE, error |-> "Insufficient permissions"]
    ELSE IF ~rbac.isAuthenticated
    THEN [started |-> FALSE, error |-> "Authentication required"]
    ELSE IF resourceCheck # Absent /\ resourceCheck # "passes"
    THEN [started |-> FALSE, error |-> "Access denied to this resource"]
    ELSE [started |-> TRUE, error |-> Null]

\* secureCall: whether apiCall() is started, and the error thrown otherwise.
\* resourceCheck is Absent when no check is passed, else "passes" or "fails":
\* what resourceCheck(rbac) returns.
secureCall(rbac, requiredPermission, resourceCheck) ==
    IF ~rbac.isAuthenticated
    THEN [started |-> FALSE, error |-> "Authentication required"]
    ELSE IF ~hasPermission(rbac.roles, requiredPermission)
    THEN [started |-> FALSE, error |-> "Insufficient permissions"]
    ELSE IF resourceCheck # Absent /\ resourceCheck # "passes"
    THEN [started |-> FALSE, error |-> "Access denied to this resource"]
    ELSE [started |-> TRUE, error |-> Null]

\* the approval queue lists d for the role: the two filters of the table
inApprovalQueue(d, role) ==
    /\ (d.status = "Under Review" \/ d.status = "Submitted")
    /\ requiredRoleForStage(Coalesce(d.current_stage, d.currentStage)) = role

(***************************************************************************)
(* HTTP calls in flight                                                    *)
(***************************************************************************)
NoPatch == [status |-> Absent, current_stage |-> Absent, description |-> Absent,
          last_modified_by |-> Absent]

\* a call of updateDemand made by approveSelected, rejectSelected or handleEdit:
\* phase "get" before the row is read, "put" once it is read and merged.
\* snap is the selectedDemand the continuation of approveSelected merges the
\* response into (the other callers use only the id after the call).
UpdateOp(kind, s, id, snap, role, patch) ==
    [kind |-> kind, sess |-> s, id |-> id, snap |-> snap, role |-> role,
     patch |-> patch, phase |-> "get", cur |-> NoDemand]

\* a call of listDemands made by the mount effect or by reloadDemands
ReloadOp(s) ==
    [kind |-> "reload", sess |-> s, id |-> 0, snap |-> NoDemand, role |-> Null,
     patch |-> NoPatch, phase |-> "get", cur |-> NoDemand]

pendingUpdates(s) == {o \in ops : o.kind # "reload" /\ o.sess = s}

(***************************************************************************)
(* The request layer: http (part_000).  A response is its status and its   *)
(* body text.  The text functions are given on the body texts the model    *)
(* uses.                                                                   *)
(***************************************************************************)
JsonMessageBody == "{\"message\":\"not found\"}"
JsonErrorBody == "{\"error\":\"denied\"}"
JsonBothBody == "{\"message\":\"invalid\",\"error\":\"E42\"}"
JsonEmptyMessageBody == "{\"message\":\"\"}"
JsonPlainBody == "{\"id\":1}"
JsonNullBody == "null"
\* a JSON body of more than 500 characters with a message field, and its first
\* 500 characters
JsonLongBody == "{\"message\":\"quota\",\"detail\":\"x...x\"}"
JsonLongBodyCut == "{\"message\":\"quota\",\"detail\":\"x..."
HtmlBody == "<html><body>Login</body></html>"
DoctypeBody == " <!DOCTYPE html><html><body>Error</body></html>"
TextBody == "plain failure"
EmptyBody == ""

\* s.trim().toLowerCase() starts with "<!doctype" or "<html"
looksLikeHtml(s) == s \in {HtmlBody, DoctypeBody}

\* errText.replace(/<[^>]+>/g, " ").replace(/\s+/g, " ").trim().slice(0, 500)
htmlSnippet(s) ==
    CASE s = HtmlBody -> "Login"
      [] s = DoctypeBody -> "Error"
      [] OTHER -> s

\* s.substring(0, 500)
substring500(s) == IF s = JsonLongBody THEN JsonLongBodyCut ELSE s

\* JSON.parse(s): throws on a text that is not JSON; otherwise the message and
\* error fields of the value (Null for a field the value does not have, and
\* for the fields of null read through ?.)
JSONparse(s) ==
    CASE s = JsonMessageBody -> [throws |-> FALSE, message |-> "not found", error |-> Null]
      [] s = JsonErrorBody -> [throws |-> FALSE, message |-> Null, error |-> "denied"]
      [] s = JsonBothBody -> [throws |-> FALSE, message |-> "invalid", error |-> "E42"]
      [] s = JsonEmptyMessageBody -> [throws |-> FALSE, message |-> "", error |-> Null]
      [] s = JsonLongBody -> [throws |-> FALSE, message |-> "quota", error |-> Null]
      [] s \in {JsonPlainBody, JsonNullBody} ->
             [throws |-> FALSE, message |-> Null, error |-> Null]
      [] OTHER -> [throws |-> TRUE, message |-> Null, error |-> Null]

\* new Error(`HTTP ${status}: ${text}`), with the snippet of the HTML error
HttpError(status, text, snippet) == [status |-> status, text |-> text, snippet |-> snippet]

NoError == [status |-> 0, text |-> Absent, snippet |-> Absent]

NoValue == [type |-> "undefined", text |-> Absent]

NoResponse == [status |-> 0, body |-> Absent]

\* what the try block of the error path throws: the SyntaxError of JSON.parse,
\* or the Error built from the message
tryBlock(status, errText) ==
    LET j == JSONparse(errText)
    IN  IF j.throws
        THEN [name |-> "SyntaxError", error |-> NoError]
        ELSE [name |-> "Error",
              error |-> HttpError(status, OrElse(j.message, OrElse(j.error, errText)),
                                  Absent)]

\* catch { throw new Error(`HTTP ${res.status}: ${errText.substring(0, 500)}`) }:
\* the clause has no binding and takes every exception of the try block
catchClause(thrown, status, errText) == HttpError(status, substring500(errText), Absent)

\* http(path, init) once fetch has answered with res
http(res) ==
    IF res.status \in 200..299
    THEN IF res.status = 204
         THEN [value |-> NoValue, error |-> NoError]
         ELSE [value |-> [type |-> IF JSONparse(res.body).throws THEN "text" ELSE "json",
                          text |-> res.body],
               error |-> NoError]
    ELSE IF looksLikeHtml(res.body)
         THEN [value |-> NoValue,
               error |-> HttpError(res.status, "Server returned HTML instead of JSON",
                                   htmlSnippet(res.body))]
         ELSE [value |-> NoValue,
               error |-> catchClause(tryBlock(res.status, res.body), res.status, res.body)]

\* no user context (an operator that reads none is applied)
NoContext == [id |-> Null, name |-> Null, email |-> Null, roles |-> << >>,
              isAuthenticated |-> FALSE]

\* no account handed to an operator
NoAccount == [signedIn |-> FALSE, name |-> Absent, username |-> Absent,
              roles |-> NoClaim]

NoArg == [demand |-> NoDemand, role |-> Null, patch |-> NoPatch, key |-> Absent,
          account |-> NoAccount, rbac |-> NoContext,
          response |-> NoResponse]

\* the alert of a caller of updateDemand, by session and message
NoAlert == [sess |-> 0, text |-> Null]

Alert(s, text) == [sess |-> s, text |-> text]

NoRes == [op |-> "none", value |-> Null]

(***************************************************************************)
(* Initial state: an empty store, every session freshly mounted (its mount *)
(* effect has called listDemands and awaits the answer).                   *)
(***************************************************************************)
Init ==
    /\ store = [id \in DemandIds |-> NoDemand]
    /\ nextId = 1
    /\ currentRole = [s \in Sessions |-> "Demand Requestor"]
    /\ demands = [s \in Sessions |-> [id \in DemandIds |-> NoDemand]]
    /\ selectedDemand = [s \in Sessions |-> NoDemand]
    /\ ops = {ReloadOp(s) : s \in Sessions}
    /\ approvalChain = [id \in DemandIds |-> << >>]
    /\ alert = NoAlert
    /\ fnArg = NoArg
    /\ fnRes = NoRes

(***************************************************************************)
(* Actions of a session                                                    *)
(***************************************************************************)
\* the role switcher of the header
setCurrentRole(s, r) ==
    /\ r # currentRole[s]
    /\ currentRole' = [currentRole EXCEPT ![s] = r]
    /\ alert' = NoAlert
    /\ UNCHANGED <<store, nextId, demands, selectedDemand, ops, approvalChain, fnVars>>

\* createDemand answered by the store, then setDemands([created, ...prev]) and
\* the call of reloadDemands
createAndList(s, form) ==
    LET created == createPayload(nextId, form)
    IN  /\ nextId \in DemandIds
        /\ store' = [store EXCEPT ![nextId] = created]
        /\ nextId' = nextId + 1
        /\ demands' = [demands EXCEPT ![s][nextId] = created]
        /\ ops' = ops \cup {ReloadOp(s)}
        /\ alert' = NoAlert
        /\ UNCHANGED <<currentRole, selectedDemand, approvalChain, fnVars>>

handleSaveDraft(s) ==
    createAndList(s, [status |-> "Draft", current_stage |-> "Intake",
                      description |-> FormDescription,
                      requestor |-> currentUserName, department |-> FormDepartment])

\* handleSubmitDemand creating the demand at Intake with status Submitted
handleSubmitAtIntake(s) ==
    createAndList(s, [status |-> "Submitted", current_stage |-> "Intake",
                      description |-> FormDescription,
                      requestor |-> currentUserName, department |-> FormDepartment])

\* the form passed validateDemand (a form that fails it returns before any call)
handleSubmitDemand(s) ==
    createAndList(s, [status |-> "Under Review", current_stage |-> "Screening",
                      description |-> FormDescription,
                      requestor |-> currentUserName, department |-> FormDepartment])

\* listDemands answered: setDemands(rows)
reloadDemands(o) ==
    /\ o \in ops /\ o.kind = "reload"
    /\ demands' = [demands EXCEPT ![o.sess] = listDemands]
    /\ ops' = ops \ {o}
    /\ alert' = NoAlert
    /\ UNCHANGED <<store, nextId, currentRole, selectedDemand, approvalChain, fnVars>>

openDemandModal(s, id) ==
    /\ demands[s][id].id # 0
    /\ selectedDemand[s] # demands[s][id]
    /\ selectedDemand' = [selectedDemand EXCEPT ![s] = demands[s][id]]
    /\ alert' = NoAlert
    /\ UNCHANGED <<store, nextId, currentRole, demands, ops, approvalChain, fnVars>>

\* a click on Approve: approveSelected up to its call of updateDemand
approveSelected(s) ==
    LET sel == selectedDemand[s]
    IN  /\ ControlsOffered(sel, currentRole[s])
        /\ Cardinality(pendingUpdates(s)) < MaxPending
        /\ ops' = ops \cup {UpdateOp("approve", s, sel.id, sel, currentRole[s],
                                     approvePatch(sel))}
        /\ alert' = NoAlert
        /\ UNCHANGED <<store, nextId, currentRole, demands, selectedDemand,
                       approvalChain, fnVars>>

\* a click on Reject: rejectSelected up to its call of updateDemand
rejectSelected(s) ==
    LET sel == selectedDemand[s]
    IN  /\ ControlsOffered(sel, currentRole[s])
        /\ Cardinality(pendingUpdates(s)) < MaxPending
        /\ ops' = ops \cup {UpdateOp("reject", s, sel.id, NoDemand, currentRole[s],
                                     rejectPatch)}
        /\ alert' = NoAlert
        /\ UNCHANGED <<store, nextId, currentRole, demands, selectedDemand,
                       approvalChain, fnVars>>

\* the Edit button of a row (Draft or Submitted) and the prompt answered
handleEdit(s, id, description) ==
    LET d == demands[s][id]
    IN  /\ d.id # 0
        /\ (d.status = "Draft" \/ d.status = "Submitted")
        /\ Cardinality(pendingUpdates(s)) < MaxPending
        /\ ops' = ops \cup {UpdateOp("edit", s, d.id, NoDemand, Null,
                                     editPatch(description))}
        /\ alert' = NoAlert
        /\ UNCHANGED <<store, nextId, currentRole, demands, selectedDemand,
                       approvalChain, fnVars>>

(***************************************************************************)
(* Steps of updateDemand                                                   *)
(***************************************************************************)
\* 1) const cur = await getDemand(id)
getDemand(o) ==
    /\ o \in ops /\ o.kind # "reload" /\ o.phase = "get"
    /\ store[o.id].id # 0
    /\ ops' = (ops \ {o}) \cup {[o EXCEPT !.phase = "put", !.cur = store[o.id]]}
    /\ alert' = NoAlert
    /\ UNCHANGED <<store, nextId, currentRole, demands, selectedDemand,
                   approvalChain, fnVars>>

\* History of the approvals stored for a demand: the approval of the stage at
\* flow index Len(chain) + 1 extends the chain by <<stage, acting role>>, so the
\* chain lists, in flow order and one step at a time from the submission stage,
\* who approved each stage first.
extendChain(chain, stage, role) ==
    IF FlowFindIndex(stage) = Len(chain) + 1
    THEN Append(chain, <<stage, role>>)
    ELSE chain

\* the alert the caller of o raises once updateDemand answered; handleEdit
\* raises none
successAlert(o) ==
    CASE o.kind = "approve" -> Alert(o.sess, "Approved.")
      [] o.kind = "reject" -> Alert(o.sess, "Demand rejected.")
      [] OTHER -> NoAlert

\* the row the PUT of o stores, which is also the response
putRow(o) == storedRow(updatePayload(o.id, o.cur, o.patch))

\* 4) the PUT answered, and the continuation of the caller
putDemand(o) ==
    LET updated == putRow(o)
        s == o.sess
    IN  /\ o \in ops /\ o.kind # "reload" /\ o.phase = "put"
        /\ store' = [store EXCEPT ![o.id] = updated]
        /\ ops' = ops \ {o}
        /\ demands' = [demands EXCEPT ![s] =
                          replaceRow(demands[s], o.id,
                                     IF o.kind = "approve"
                                     THEN mergeSelected(o.snap, updated)
                                     ELSE updated)]
        /\ selectedDemand' =
              [selectedDemand EXCEPT ![s] =
                  CASE o.kind = "approve" -> mergeSelected(o.snap, updated)
                    [] o.kind = "reject" -> updated
                    [] OTHER -> selectedDemand[s]]
        /\ approvalChain' =
              IF o.kind = "approve"
              THEN [approvalChain EXCEPT ![o.id] =
                       extendChain(@, currentStageOf(o.snap), o.role)]
              ELSE approvalChain
        /\ alert' = successAlert(o)
        /\ UNCHANGED <<nextId, currentRole, fnVars>>

\* failureAlert that raises nothing
failureAlertSilent(o) == NoAlert

\* the alert of the catch block of the caller of o; a failed listDemands is
\* logged to the console only
failureAlert(o) ==
    CASE o.kind = "approve" -> Alert(o.sess, "Approval failed")
      [] o.kind = "reject" -> Alert(o.sess, "Reject failed")
      [] o.kind = "edit" -> Alert(o.sess, "Update failed")
      [] OTHER -> NoAlert

\* a call that fails, at its GET or at its PUT (network or server error): the
\* catch block of the caller alerts, changes no state and makes no new call
httpFails(o) ==
    /\ o \in ops
    /\ ops' = ops \ {o}
    /\ alert' = failureAlert(o)
    /\ UNCHANGED <<store, nextId, currentRole, demands, selectedDemand,
                   approvalChain, fnVars>>

Next ==
    \/ \E s \in Sessions, r \in Role : setCurrentRole(s, r)
    \/ \E s \in Sessions : handleSaveDraft(s)
    \/ \E s \in Sessions : handleSubmitDemand(s)
    \/ \E s \in Sessions, id \in DemandIds : openDemandModal(s, id)
    \/ \E s \in Sessions : approveSelected(s)
    \/ \E s \in Sessions : rejectSelected(s)
    \/ \E s \in Sessions, id \in DemandIds, d \in Descriptions : handleEdit(s, id, d)
    \/ \E o \in ops : reloadDemands(o)
    \/ \E o \in ops : getDemand(o)
    \/ \E o \in ops : putDemand(o)
    \/ \E o \in ops : httpFails(o)

Spec == Init /\ [][Next]_vars

\* Spec under fairness: every call in flight is eventually answered, and an
\* operation a session is offered without interruption is eventually performed.
\* No fairness is put on failures and rejections.
Fairness ==
    /\ WF_vars(\E o \in ops : reloadDemands(o))
    /\ WF_vars(\E o \in ops : getDemand(o))
    /\ WF_vars(\E o \in ops : putDemand(o))
    /\ \A s \in Sessions :
          /\ WF_vars(\E id \in DemandIds : openDemandModal(s, id))
          /\ WF_vars(approveSelected(s))
          /\ WF_vars(\E id \in DemandIds, d \in Descriptions : handleEdit(s, id, d))
          /\ WF_vars(handleSubmitDemand(s))

SpecLive == Init /\ [][Next]_vars /\ Fairness

(***************************************************************************)
(* Deleting: handleDelete with deleteDemand, softDeleteDemand and          *)
(* markAsDeletedInUI, in sessions that create demands and delete them.     *)
(***************************************************************************)
\* a call of handleDelete in flight: d is the row handed to it, snapshot the
\* list it saved; phase "hard" while deleteDemand is awaited, "hardReload"
\* while the reload after it is, "soft" and "softReload" likewise for
\* softDeleteDemand
DeleteOp(s, d, snapshot) ==
    [kind |-> "delete", sess |-> s, id |-> d.id, snap |-> NoDemand, role |-> Null,
     patch |-> NoPatch, phase |-> "hard", cur |-> d, list |-> snapshot]

\* rows.filter((r) => r.id !== id)
markAsDeletedInUI(rows, id) ==
    [k \in DemandIds |-> IF rows[k].id = id THEN NoDemand ELSE rows[k]]

\* the body softDeleteDemand sends: { ID, TITLE, CREATED_DATE }
softDeletePayload(id) ==
    [id |-> id, status |-> Absent, current_stage |-> Absent, currentStage |-> Absent,
     description |-> Absent, requestor |-> Absent, department |-> Absent,
     created_date |-> "t1", last_modified_by |-> Absent]

\* handleDelete up to its first await: the status test, the confirm dialog
\* (answered confirmed), the optimistic removal and the DELETE request
handleDelete(s, id, confirmed) ==
    LET d == demands[s][id]
    IN  /\ d.id # 0
        /\ Cardinality(pendingUpdates(s)) < MaxPending
        /\ IF d.status # "Draft"
           THEN /\ alert' = Alert(s, "Only drafts can be deleted.")
                /\ UNCHANGED <<demands, ops>>
           ELSE IF ~confirmed
           THEN /\ alert' = NoAlert
                /\ UNCHANGED <<demands, ops>>
           ELSE /\ demands' = [demands EXCEPT ![s] = markAsDeletedInUI(@, d.id)]
                /\ ops' = ops \cup {DeleteOp(s, d, demands[s])}
                /\ alert' = NoAlert
        /\ UNCHANGED <<store, nextId, currentRole, selectedDemand, approvalChain, fnVars>>

\* deleteDemand answered: the store removed the row; the handler waits and
\* calls reloadDemands
deleteDemand(o) ==
    /\ o \in ops /\ o.kind = "delete" /\ o.phase = "hard"
    /\ store' = [store EXCEPT ![o.id] = NoDemand]
    /\ ops' = (ops \ {o}) \cup {[o EXCEPT !.phase = "hardReload"]}
    /\ alert' = NoAlert
    /\ UNCHANGED <<nextId, currentRole, demands, selectedDemand, approvalChain, fnVars>>

\* deleteDemand failed: the catch block restores the snapshot and asks whether
\* to try the soft delete (useAlternative is the answer)
deleteDemandFails(o, useAlternative) ==
    /\ o \in ops /\ o.kind = "delete" /\ o.phase = "hard"
    /\ demands' = [demands EXCEPT ![o.sess] = o.list]
    /\ IF useAlternative
       THEN /\ ops' = (ops \ {o}) \cup {[o EXCEPT !.phase = "soft"]}
            /\ alert' = NoAlert
       ELSE /\ ops' = ops \ {o}
            /\ alert' = Alert(o.sess, "Delete failed")
    /\ UNCHANGED <<store, nextId, currentRole, selectedDemand, approvalChain, fnVars>>

\* softDeleteDemand answered: the PUT stored its body; the handler calls
\* reloadDemands
softDeleteDemand(o) ==
    /\ o \in ops /\ o.kind = "delete" /\ o.phase = "soft"
    /\ store' = [store EXCEPT ![o.id] = storedRow(softDeletePayload(o.id))]
    /\ ops' = (ops \ {o}) \cup {[o EXCEPT !.phase = "softReload"]}
    /\ alert' = NoAlert
    /\ UNCHANGED <<nextId, currentRole, demands, selectedDemand, approvalChain, fnVars>>

\* softDeleteDemand failed: the inner catch block hides the row
softDeleteDemandFails(o) ==
    /\ o \in ops /\ o.kind = "delete" /\ o.phase = "soft"
    /\ demands' = [demands EXCEPT ![o.sess] = markAsDeletedInUI(@, o.id)]
    /\ ops' = ops \ {o}
    /\ alert' = Alert(o.sess, "Database delete operations are not working.")
    /\ UNCHANGED <<store, nextId, currentRole, selectedDemand, approvalChain, fnVars>>

\* the reloadDemands the handler awaits after a delete: listDemands answered
\* (answered TRUE) or failed, which reloadDemands logs without throwing; the
\* handler then ends, with an alert after the soft delete
reloadAfterDelete(o, answered) ==
    /\ o \in ops /\ o.kind = "delete" /\ o.phase \in {"hardReload", "softReload"}
    /\ demands' = IF answered THEN [demands EXCEPT ![o.sess] = listDemands] ELSE demands
    /\ ops' = ops \ {o}
    /\ alert' = IF o.phase = "softReload" THEN Alert(o.sess, "Soft delete successful")
                ELSE NoAlert
    /\ UNCHANGED <<store, nextId, currentRole, selectedDemand, approvalChain, fnVars>>

\* a listDemands of the mount effect or of a create handler that fails
reloadFails(o) == o.kind = "reload" /\ httpFails(o)

NextDelete ==
    \/ \E s \in Sessions : handleSaveDraft(s)
    \/ \E s \in Sessions : handleSubmitDemand(s)
    \/ \E o \in ops : reloadDemands(o)
    \/ \E o \in ops : reloadFails(o)
    \/ \E s \in Sessions, id \in DemandIds, confirmed \in BOOLEAN :
          handleDelete(s, id, confirmed)
    \/ \E o \in ops : deleteDemand(o)
    \/ \E o \in ops, useAlternative \in BOOLEAN : deleteDemandFails(o, useAlternative)
    \/ \E o \in ops : softDeleteDemand(o)
    \/ \E o \in ops : softDeleteDemandFails(o)
    \/ \E o \in ops, answered \in BOOLEAN : reloadAfterDelete(o, answered)

SpecDelete == Init /\ [][NextDelete]_vars

(***************************************************************************)
(* The pure operators applied to inputs drawn from bounded sets: a demand  *)
(* as the store may return it (either stage field name, null, empty or     *)
(* unknown stage keys, every status) and an acting role.                   *)
(***************************************************************************)
StageInputs ==
    {Null, "", "Intake", "Screening", "Assessment", "Evaluation", "Authorization",
     "Business Case Development", "Service Portfolio Entry",
     "Service Implementation/Monitoring", "Closure", "Unknown"}

AliasInputs == {Null, "", "Screening", "Authorization", "Unknown"}

DemandInputs ==
    [id : {1}, status : DemandStatus, current_stage : StageInputs,
     currentStage : AliasInputs, description : {FormDescription},
     requestor : {currentUserName}, department : {FormDepartment},
     created_date : {StoreDate}, last_modified_by : {Null}]

\* stage keys handed to the stage helpers and to buildWorkflow: absent, empty
\* and blank keys, the keys of the stage table as written, in another case and
\* with surrounding blanks, and a key no table holds
KeyInputs ==
    StageInputs \cup {" ", "intake", "INTAKE", "screening", "SCREENING", " Screening ",
                      "AUTHORIZATION", "Service portfolio entry", "closure", "Closure "}

\* rows and patches handed to updateDemand
UpdateInputs ==
    [id : {1}, status : {"Draft", "Under Review"}, current_stage : {Null, "Screening"},
     currentStage : {Null}, description : {FormDescription},
     requestor : {Null, currentUserName}, department : {FormDepartment},
     created_date : {StoreDate}, last_modified_by : {Null, "other"}]

PatchInputs ==
    [status : {Absent, "Rejected"}, current_stage : {Absent, "Assessment"},
     description : {Absent, "d1"}, last_modified_by : {Absent, currentUserName}]

\* the role names an id token may carry
AADRoles == {"DemandRequestor", "BUHead", "ITPMO", "DBR", "Admin"}

\* nobody signed in, or an account with or without a display name and with
\* any roles claim, none included
AccountInputs ==
    {SignedOut} \cup [signedIn : {TRUE}, name : {Null, currentUserName},
                      username : {"user@corp"},
                      roles : {NoClaim} \cup SUBSET AADRoles]

\* the user contexts handed to the access components: the ones RBACProvider
\* derives from the accounts, and the contexts of users holding application
\* roles (the values of RBACContextType)
RoleArrays ==
    {<<"Demand Requestor">>, <<"BU Head">>, <<"ITPMO">>, <<"DBR">>, <<"Admin">>,
     <<"Demand Requestor", "BU Head">>}

ContextInputs ==
    {RBACProvider(a) : a \in AccountInputs}
    \cup [id : {"user@corp"}, name : {currentUserName}, email : {"user@corp"},
          roles : RoleArrays, isAuthenticated : {TRUE}]

\* demands handed to the access components: every status, the stages of the
\* approval flow, the requestor being the user (by name or by email), the
\* name given to whoever is not signed in, or somebody else
RbacDemands ==
    [id : {1}, status : DemandStatus,
     current_stage : {"Intake", "Screening", "Assessment", "Authorization",
                      "Service Portfolio Entry"},
     currentStage : {Null}, description : {FormDescription},
     requestor : {currentUserName, "user@corp", "Unknown User", "other"},
     department : {FormDepartment}, created_date : {StoreDate},
     last_modified_by : {Null}]

DemandActions == {"view", "edit", "delete", "approve"}

BodyInputs ==
    {JsonMessageBody, JsonErrorBody, JsonBothBody, JsonEmptyMessageBody, JsonPlainBody,
     JsonNullBody, JsonLongBody, HtmlBody, DoctypeBody, TextBody, EmptyBody}

\* answers of fetch: success with and without content, client and server errors
ResponseInputs == [status : {200, 204, 400, 401, 404, 500}, body : BodyInputs]

InitFn ==
    /\ store = [id \in DemandIds |-> NoDemand]
    /\ nextId = 1
    /\ currentRole = [s \in Sessions |-> "Demand Requestor"]
    /\ demands = [s \in Sessions |-> [id \in DemandIds |-> NoDemand]]
    /\ selectedDemand = [s \in Sessions |-> NoDemand]
    /\ ops = {}
    /\ approvalChain = [id \in DemandIds |-> << >>]
    /\ alert = NoAlert
    /\ fnArg \in [demand : DemandInputs \cup {NoDemand}, role : Role,
                  patch : {NoPatch}, key : {Absent},
                  account : {NoAccount}, rbac : {NoContext}, response : {NoResponse}]
              \cup [demand : UpdateInputs, role : {"Demand Requestor"},
                    patch : PatchInputs, key : {Absent},
                    account : {NoAccount}, rbac : {NoContext}, response : {NoResponse}]
              \cup [demand : {NoDemand}, role : {Null},
                    patch : {NoPatch}, key : KeyInputs,
                    account : {NoAccount}, rbac : {NoContext}, response : {NoResponse}]
              \cup [demand : {NoDemand}, role : {Null},
                    patch : {NoPatch}, key : {Absent},
                    account : AccountInputs, rbac : {NoContext}, response : {NoResponse}]
              \cup [demand : RbacDemands \cup {NoDemand}, role : Role,
                    patch : {NoPatch}, key : {Absent},
                    account : {NoAccount}, rbac : ContextInputs,
                    response : {NoResponse}]
              \cup [demand : {NoDemand}, role : {Null},
                    patch : {NoPatch}, key : {Absent},
                    account : {NoAccount}, rbac : {NoContext},
                    response : ResponseInputs]
    /\ fnRes = NoRes

\* userCanActOnSelected with selectedDemand = fnArg.demand, currentRole = fnArg.role
\* evalCanAct with the roles of the user context in place of currentRole
evalCanActContextRoles ==
    /\ fnRes.op = "none"
    /\ fnArg.key = Absent
    /\ fnArg.account = NoAccount
    /\ fnArg.response = NoResponse
    /\ fnRes' = [op |-> "canAct",
                 value |-> IF fnArg.rbac = NoContext
                           THEN userCanActOnSelected(fnArg.demand, fnArg.role)
                           ELSE \E i \in 1..Len(fnArg.rbac.roles) :
                                   userCanActOnSelected(fnArg.demand, fnArg.rbac.roles[i])]
    /\ UNCHANGED <<fnArg, sysVars>>

evalCanAct ==
    /\ fnRes.op = "none"
    /\ fnArg.key = Absent
    /\ fnArg.account = NoAccount
    /\ fnArg.response = NoResponse
    /\ fnRes' = [op |-> "canAct",
                 value |-> userCanActOnSelected(fnArg.demand, fnArg.role)]
    /\ UNCHANGED <<fnArg, sysVars>>

\* approveSelected on selectedDemand = fnArg.demand, the store holding that row:
\* the patch, and the row updateDemand stores
evalApprove ==
    /\ fnRes.op = "none"
    /\ fnArg.demand.id # 0
    /\ fnRes' = [op |-> "approve",
                 value |-> updatePayload(fnArg.demand.id, fnArg.demand,
                                         approvePatch(fnArg.demand))]
    /\ UNCHANGED <<fnArg, sysVars>>

\* rejectSelected on selectedDemand = fnArg.demand, the store holding that row
evalReject ==
    /\ fnRes.op = "none"
    /\ fnArg.demand.id # 0
    /\ fnRes' = [op |-> "reject",
                 value |-> updatePayload(fnArg.demand.id, fnArg.demand, rejectPatch)]
    /\ UNCHANGED <<fnArg, sysVars>>

\* the condition under which the Approve / Reject buttons are rendered, with
\* selectedDemand = fnArg.demand and currentRole = fnArg.role
evalControls ==
    /\ fnRes.op = "none"
    /\ fnArg.key = Absent
    /\ fnArg.account = NoAccount
    /\ fnArg.response = NoResponse
    /\ fnRes' = [op |-> "controls",
                 value |-> ControlsOffered(fnArg.demand, fnArg.role)]
    /\ UNCHANGED <<fnArg, sysVars>>

\* updateDemand(id, fnArg.patch), the store holding the row fnArg.demand: the
\* payload of the PUT
evalUpdate ==
    /\ fnRes.op = "none"
    /\ fnArg.demand.id # 0
    /\ fnRes' = [op |-> "update",
                 value |-> updatePayload(fnArg.demand.id, fnArg.demand, fnArg.patch)]
    /\ UNCHANGED <<fnArg, sysVars>>

evalStageIndex ==
    /\ fnRes.op = "none"
    /\ fnArg.key # Absent
    /\ fnRes' = [op |-> "stageIndex", value |-> stageIndex(fnArg.key)]
    /\ UNCHANGED <<fnArg, sysVars>>

evalRequiredRole ==
    /\ fnRes.op = "none"
    /\ fnArg.key # Absent
    /\ fnRes' = [op |-> "requiredRole", value |-> requiredRoleForStage(fnArg.key)]
    /\ UNCHANGED <<fnArg, sysVars>>

evalNextStage ==
    /\ fnRes.op = "none"
    /\ fnArg.key # Absent
    /\ fnRes' = [op |-> "nextStage", value |-> nextStageFrom(fnArg.key)]
    /\ UNCHANGED <<fnArg, sysVars>>

evalBuildWorkflow ==
    /\ fnRes.op = "none"
    /\ fnArg.key # Absent
    /\ fnRes' = [op |-> "buildWorkflow", value |-> buildWorkflow(fnArg.key)]
    /\ UNCHANGED <<fnArg, sysVars>>

\* the row of the approval queue is rendered for d = fnArg.demand with
\* currentRole = fnArg.role
evalQueue ==
    /\ fnRes.op = "none"
    /\ fnArg.demand.id # 0
    /\ fnRes' = [op |-> "queue",
                 value |-> inApprovalQueue(fnArg.demand, fnArg.role)]
    /\ UNCHANGED <<fnArg, sysVars>>

\* the role switcher: an option is chosen, whoever the user is
evalSetCurrentRole ==
    /\ fnRes.op = "none"
    /\ fnArg.rbac # NoContext
    /\ \E r \in Role : fnRes' = [op |-> "setCurrentRole", value |-> r]
    /\ UNCHANGED <<fnArg, sysVars>>

evalRBACProvider ==
    /\ fnRes.op = "none"
    /\ fnArg.account # NoAccount
    /\ fnRes' = [op |-> "RBACProvider", value |-> RBACProvider(fnArg.account)]
    /\ UNCHANGED <<fnArg, sysVars>>

evalDemandAccess ==
    /\ fnRes.op = "none"
    /\ fnArg.rbac # NoContext
    /\ fnArg.demand.id # 0
    /\ \E action \in DemandActions :
          fnRes' = [op |-> "DemandAccess",
                    value |-> [action |-> action,
                               hasAccess |-> DemandAccess(fnArg.rbac, fnArg.demand,
                                                          action)]]
    /\ UNCHANGED <<fnArg, sysVars>>

evalCanAccessDemand ==
    /\ fnRes.op = "none"
    /\ fnArg.rbac # NoContext
    /\ fnArg.demand.id # 0
    /\ fnRes' = [op |-> "canAccessDemand",
                 value |-> canAccessDemand(fnArg.rbac, fnArg.demand)]
    /\ UNCHANGED <<fnArg, sysVars>>

evalCanModifyDemand ==
    /\ fnRes.op = "none"
    /\ fnArg.rbac # NoContext
    /\ fnArg.demand.id # 0
    /\ fnRes' = [op |-> "canModifyDemand",
                 value |-> canModifyDemand(fnArg.rbac, fnArg.demand)]
    /\ UNCHANGED <<fnArg, sysVars>>

\* secureCall(apiCall, requiredPermission, resourceCheck) under the user
\* context fnArg.rbac
evalSecureCall ==
    /\ fnRes.op = "none"
    /\ fnArg.rbac # NoContext
    /\ fnArg.demand.id = 0
    /\ fnArg.role = "Demand Requestor"
    /\ \E p \in Permission, check \in {Absent, "passes", "fails"} :
          fnRes' = [op |-> "secureCall",
                    value |-> [requiredPermission |-> p, resourceCheck |-> check,
                               result |-> secureCall(fnArg.rbac, p, check)]]
    /\ UNCHANGED <<fnArg, sysVars>>

\* getRolePermissions(role) for a role of the Role type
evalGetRolePermissions ==
    /\ fnRes.op = "none"
    /\ fnArg.rbac # NoContext
    /\ fnArg.demand.id = 0
    /\ fnArg.role = "Demand Requestor"
    /\ \E r \in RbacRole :
          fnRes' = [op |-> "getRolePermissions",
                    value |-> [role |-> r, permissions |-> getRolePermissions(r)]]
    /\ UNCHANGED <<fnArg, sysVars>>

\* hasPermission(userRoles, permission) with the roles of the user context
evalHasPermission ==
    /\ fnRes.op = "none"
    /\ fnArg.rbac # NoContext
    /\ fnArg.demand.id = 0
    /\ fnArg.role = "Demand Requestor"
    /\ \E p \in Permission :
          fnRes' = [op |-> "hasPermission",
                    value |-> [permission |-> p,
                               result |-> hasPermission(fnArg.rbac.roles, p)]]
    /\ UNCHANGED <<fnArg, sysVars>>

\* http with the response fnArg.response
evalHttp ==
    /\ fnRes.op = "none"
    /\ fnArg.response # NoResponse
    /\ fnRes' = [op |-> "http", value |-> http(fnArg.response)]
    /\ UNCHANGED <<fnArg, sysVars>>

NextFn ==
    \/ evalHttp
    \/ evalGetRolePermissions
    \/ evalHasPermission
    \/ evalQueue
    \/ evalSetCurrentRole
    \/ evalRBACProvider
    \/ evalDemandAccess
    \/ evalCanAccessDemand
    \/ evalCanModifyDemand
    \/ evalSecureCall
    \/ evalCanAct
    \/ evalApprove
    \/ evalReject
    \/ evalControls
    \/ evalUpdate
    \/ evalStageIndex
    \/ evalRequiredRole
    \/ evalNextStage
    \/ evalBuildWorkflow

SpecFn == InitFn /\ [][NextFn]_vars

(***************************************************************************)
(* Properties                                                              *)
(***************************************************************************)
Actionable == {"Submitted", "Under Review"}

Terminal == {"Approved", "Rejected", "Completed"}

\* the stage a demand is at: current_stage, or currentStage when that is empty
EffectiveStage(d) == IF Truthy(d.current_stage) THEN d.current_stage ELSE d.currentStage

\* the required role of each stage as the specification tabulates it; keys
\* that do not resolve (absent, empty, not in the approval flow) count as the
\* first stage
TableRole(k) ==
    CASE k = "Screening" -> "BU Head"
      [] k = "Assessment" -> "ITPMO"
      [] k = "Authorization" -> "DBR"
      [] k = "Service Portfolio Entry" -> Null
      [] OTHER -> "Demand Requestor"

\* the stage that follows each stage before the final gate
TableSuccessor(k) ==
    CASE k = "Intake" -> "Screening"
      [] k = "Screening" -> "Assessment"
      [] k = "Assessment" -> "Authorization"

\* C1: the guard is true exactly when the acting role is the required role of
\* the demand's stage and the status is Submitted or Under Review; it is false
\* for every other combination (Draft, Approved, Rejected, Completed included,
\* even with the matching role).
C1_GuardCorrect ==
    fnRes.op = "canAct" =>
        (fnRes.value <=>
            /\ fnArg.demand.id # 0
            /\ TableRole(EffectiveStage(fnArg.demand)) = fnArg.role
            /\ fnArg.demand.status \in Actionable)

C1_Witness ==
    /\ fnRes.op = "canAct"
    /\ fnRes.value = FALSE
    /\ fnArg.demand.status = "Draft"
    /\ fnArg.demand.current_stage = "Screening"
    /\ fnArg.role = "BU Head"

\* C2: approving a demand at Intake, Screening or Assessment on which the
\* acting role can act stores status Under Review and the stage that follows
\* the current one in the approval flow.
C2_ApproveIntermediate ==
    ( /\ fnRes.op = "approve"
      /\ EffectiveStage(fnArg.demand) \in {"Intake", "Screening", "Assessment"}
      /\ TableRole(EffectiveStage(fnArg.demand)) = fnArg.role
      /\ fnArg.demand.status \in Actionable )
    => /\ fnRes.value.status = "Under Review"
       /\ fnRes.value.current_stage = TableSuccessor(EffectiveStage(fnArg.demand))

C2_Witness ==
    /\ fnRes.op = "approve"
    /\ fnArg.demand.current_stage = "Screening"
    /\ fnArg.demand.status = "Under Review"
    /\ fnArg.role = "BU Head"
    /\ fnRes.value.status = "Under Review"
    /\ fnRes.value.current_stage = "Assessment"

\* C3: every approval whose demand resolves to the final gate (Authorization)
\* or beyond stores status Approved and the stage nextStageFrom gives; from
\* Authorization that stage is Service Portfolio Entry.
C3_ApproveFinalGate ==
    [][\A o \in ops :
         ( /\ putDemand(o)
           /\ o.kind = "approve"
           /\ stageIndex(EffectiveStage(o.snap)) >= 3 )
         => /\ store'[o.id].status = "Approved"
            /\ store'[o.id].current_stage = nextStageFrom(EffectiveStage(o.snap))
            /\ (EffectiveStage(o.snap) = "Authorization"
                   => store'[o.id].current_stage = "Service Portfolio Entry")]_vars

C3_Witness ==
    \E id \in DemandIds, s \in Sessions :
        /\ store[id].status = "Approved"
        /\ store[id].current_stage = "Service Portfolio Entry"
        /\ selectedDemand[s] = store[id]
        /\ currentRole[s] = "DBR"

\* C4: a reject stores status Rejected and the stage of the row the reject read
\* from the store; the patch of reject carries no stage.
C4_RejectKeepsStage ==
    [][\A o \in ops :
         (putDemand(o) /\ o.kind = "reject")
         => /\ store'[o.id].status = "Rejected"
            /\ store'[o.id].current_stage = o.cur.current_stage
            /\ o.patch.current_stage = Absent]_vars

C4_Witness ==
    \E id \in DemandIds, s \in Sessions :
        /\ store[id].status = "Rejected"
        /\ store[id].current_stage = "Assessment"
        /\ selectedDemand[s] = store[id]

\* C5: an approve or reject on a demand for which the guard is false for the
\* acting role changes neither the stored demand nor the demands a session
\* holds (it fails with a permission error).
C5_DeniedIsNoOp ==
    [][\A o \in ops :
         ( /\ putDemand(o)
           /\ o.kind \in {"approve", "reject"}
           /\ ~userCanActOnSelected(o.cur, o.role) )
         => /\ store' = store
            /\ demands' = demands
            /\ selectedDemand' = selectedDemand]_vars

\* C6: once the stored status of a demand is Approved, Rejected or Completed,
\* no step changes its stored status or its stored stage.
C6_TerminalAbsorbing ==
    [][\A id \in DemandIds :
         store[id].status \in Terminal
         => /\ store'[id].status = store[id].status
            /\ store'[id].current_stage = store[id].current_stage]_vars

\* C7: a demand's stored status is Approved only after BU Head approved it at
\* Screening, then ITPMO at Assessment, then DBR at Authorization, one flow
\* step per approval.
C7_NoApproverSkipped ==
    \A id \in DemandIds :
        store[id].status = "Approved"
        => approvalChain[id] = << <<"Screening", "BU Head">>,
                                  <<"Assessment", "ITPMO">>,
                                  <<"Authorization", "DBR">> >>

C7_Witness ==
    \E id \in DemandIds :
        /\ store[id].status = "Approved"
        /\ Len(approvalChain[id]) = 3

\* C8: the approval-flow index of a demand's stored stage never decreases.
C8_StageNeverDecreases ==
    [][\A id \in DemandIds :
         store[id].id # 0
         => stageIndex(store'[id].current_stage) >= stageIndex(store[id].current_stage)]_vars

\* C9: the store write of a reject or of an edit leaves the stored
\* current_stage as it was immediately before that write.
C9_OnlyApproveChangesStage ==
    [][\A o \in ops :
         (putDemand(o) /\ o.kind \in {"reject", "edit"})
         => store'[o.id].current_stage = store[o.id].current_stage]_vars

\* C10: in every store state, status Approved implies stage Service Portfolio
\* Entry, and stage Service Portfolio Entry never occurs with status Submitted
\* or Under Review.
C10_NoPartialTransition ==
    \A id \in DemandIds :
        /\ store[id].status = "Approved"
               => store[id].current_stage = "Service Portfolio Entry"
        /\ store[id].current_stage = "Service Portfolio Entry"
               => store[id].status \notin Actionable

C10_Witness ==
    \E id \in DemandIds :
        /\ store[id].status = "Approved"
        /\ store[id].current_stage = "Service Portfolio Entry"
        /\ \E s \in Sessions : selectedDemand[s].status = "Under Review"

\* the stage-table keys at and beyond Service Portfolio Entry
BeyondEntry ==
    {"Service Portfolio Entry", "Service Implementation/Monitoring", "Closure"}

\* C13: for every stage-table key at or beyond Service Portfolio Entry the
\* required role is null, so the guard is false and the Approve / Reject
\* controls are not offered to any role for a demand at such a stage.
C13_BeyondEntryNotGated ==
    /\ (fnRes.op = "requiredRole" /\ fnArg.key \in BeyondEntry)
           => fnRes.value = Null
    /\ (fnRes.op \in {"canAct", "controls"} /\ fnArg.demand.id # 0
           /\ EffectiveStage(fnArg.demand) \in BeyondEntry)
           => fnRes.value = FALSE

\* the stages of the approval flow in order, and the flow index each key
\* resolves to as the specification tabulates it (0 when it does not resolve)
FlowKeys ==
    <<"Intake", "Screening", "Assessment", "Authorization", "Service Portfolio Entry">>

TableFlowIndex(k) ==
    CASE k = "Screening" -> 1
      [] k = "Assessment" -> 2
      [] k = "Authorization" -> 3
      [] k = "Service Portfolio Entry" -> 4
      [] OTHER -> 0

\* C14: nextStageFrom returns the flow stage at index min(i + 1, last), i
\* being the index the key resolves to: one step forward from Intake,
\* Screening, Assessment and Authorization, and Service Portfolio Entry (the
\* last stage) from itself, never a stage beyond it.
C14_NextStageClamped ==
    fnRes.op = "nextStage" =>
        /\ fnRes.value = FlowKeys[Min(TableFlowIndex(fnArg.key) + 1, 4) + 1]
        /\ (fnArg.key \in {"Intake", "Screening", "Assessment", "Authorization"}
               => TableFlowIndex(fnRes.value) = TableFlowIndex(fnArg.key) + 1)
        /\ (fnArg.key = "Service Portfolio Entry"
               => fnRes.value = "Service Portfolio Entry")

C14_Witness ==
    /\ fnRes.op = "nextStage"
    /\ fnArg.key = "Service Portfolio Entry"
    /\ fnRes.value = "Service Portfolio Entry"

\* keys that are no key of the stage table in any case or padding
UnknownKeys == {Null, "", " ", "Unknown"}

\* C15: for every key that is not in the stage table (null / undefined, the
\* empty string, a blank, an unknown word) stageIndex returns 0 and the index
\* buildWorkflow resolves is 0 (the first entry is the current one, none is
\* completed); neither fails.
C15_UnknownKeyResolvesToFirst ==
    /\ (fnRes.op = "stageIndex" /\ fnArg.key \in UnknownKeys) => fnRes.value = 0
    /\ (fnRes.op = "buildWorkflow" /\ fnArg.key \in UnknownKeys)
           => /\ fnRes.value[1].current
              /\ \A i \in 1..Len(fnRes.value) :
                     /\ ~fnRes.value[i].completed
                     /\ (i > 1 => ~fnRes.value[i].current)

C15_Witness ==
    /\ fnRes.op = "stageIndex"
    /\ fnArg.key = "Unknown"
    /\ fnRes.value = 0

\* a demand whose stage is missing under both of its names, and the same
\* demand at Intake
StageMissing(d) == d.id # 0 /\ d.current_stage = Null /\ d.currentStage = Null

AtIntake(d) == [d EXCEPT !.current_stage = "Intake"]

\* C16: a demand whose stored stage is missing or null gets what the same
\* demand at Intake gets: the same required role, the same guard value, the
\* same availability of the Approve / Reject controls and the same row stored
\* by an approve.
C16_MissingStageLikeIntake ==
    /\ (fnRes.op = "requiredRole" /\ fnArg.key = Null)
           => fnRes.value = requiredRoleForStage("Intake")
    /\ (fnRes.op = "canAct" /\ StageMissing(fnArg.demand))
           => fnRes.value = userCanActOnSelected(AtIntake(fnArg.demand), fnArg.role)
    /\ (fnRes.op = "controls" /\ StageMissing(fnArg.demand))
           => fnRes.value = ControlsOffered(AtIntake(fnArg.demand), fnArg.role)
    /\ (fnRes.op = "approve" /\ StageMissing(fnArg.demand))
           => fnRes.value = updatePayload(fnArg.demand.id, AtIntake(fnArg.demand),
                                          approvePatch(AtIntake(fnArg.demand)))

\* the position of each key in the stage table, case and surrounding blanks
\* ignored (0 when the key is in no table)
TablePosition(k) ==
    CASE k \in {"Screening", "screening", "SCREENING", " Screening "} -> 1
      [] k = "Assessment" -> 2
      [] k = "Evaluation" -> 3
      [] k \in {"Authorization", "AUTHORIZATION"} -> 4
      [] k = "Business Case Development" -> 5
      [] k \in {"Service Portfolio Entry", "Service portfolio entry"} -> 6
      [] k = "Service Implementation/Monitoring" -> 7
      [] k \in {"Closure", "closure", "Closure "} -> 8
      [] OTHER -> 0

\* C17: the progress view buildWorkflow returns lists the 9 stages of the
\* stage table in table order, marks exactly one entry current, the one at the
\* resolved index, and marks an entry completed exactly when its index is
\* lower than the resolved index.
C17_ProgressView ==
    fnRes.op = "buildWorkflow" =>
        /\ Len(fnRes.value) = 9
        /\ \A i \in 1..9 :
               /\ fnRes.value[i].id = i
               /\ fnRes.value[i].name = WORKFLOW_STAGES[i].name
               /\ fnRes.value[i].current <=> (i - 1 = TablePosition(fnArg.key))
               /\ fnRes.value[i].completed <=> (i - 1 < TablePosition(fnArg.key))
        /\ Cardinality({i \in 1..9 : fnRes.value[i].current}) = 1

C17_Witness ==
    /\ fnRes.op = "buildWorkflow"
    /\ fnArg.key = " Screening "
    /\ fnRes.value[1].completed
    /\ fnRes.value[2].current
    /\ ~fnRes.value[2].completed

\* the value a row read from the store has for a field, the stage being read
\* under either of its names
ReadValue(d, f) ==
    IF f = "current_stage" THEN Coalesce(d.current_stage, d.currentStage) ELSE d[f]

\* C18: the row updateDemand writes is the row read with exactly the fields of
\* the patch replaced: status, current_stage, description and last_modified_by
\* are written with the value of the patch when the patch has them and keep
\* the value read otherwise; requestor, department and the created date keep
\* the value read; no field is nulled.
C18_UpdateWritesMerge ==
    fnRes.op = "update" =>
        /\ \A f \in {"status", "current_stage", "description", "last_modified_by"} :
               IF fnArg.patch[f] # Absent
               THEN fnRes.value[f] = fnArg.patch[f]
               ELSE storedRow(fnRes.value)[f] = ReadValue(fnArg.demand, f)
        /\ \A f \in {"requestor", "department", "created_date"} :
               storedRow(fnRes.value)[f] = fnArg.demand[f]

\* C11: a demand saved as Draft is eventually submitted into the approval
\* flow: once its stored status is Draft, its stored status eventually becomes
\* Submitted or Under Review.
C11_DraftEventuallySubmitted ==
    \A id \in DemandIds :
        (store[id].status = "Draft") ~> (store[id].status \in Actionable)

\* C12 as stated: every demand is created in Draft / Intake, and a demand
\* enters the approval flow only from Draft, with status Submitted at the
\* first stage of the flow.
C12_SubmissionFromDraft ==
    [][\A id \in DemandIds :
         /\ (store[id].id = 0 /\ store'[id].id # 0)
                => (store'[id].status = "Draft" /\ store'[id].current_stage = "Intake")
         /\ (store[id].status \notin Actionable /\ store'[id].status \in Actionable)
                => /\ store[id].status = "Draft"
                   /\ store'[id].status = "Submitted"
                   /\ store'[id].current_stage \in {"Intake", "Screening"}]_vars

\* C12 amended: Save Draft creates the demand in Draft / Intake, and
\* submission creates the demand in the approval flow in the state
\* (Screening, Under Review); a row is created in no other state.
C12_CreatedStates ==
    [][/\ \A s \in Sessions :
            /\ handleSaveDraft(s)
                   => (store'[nextId].status = "Draft"
                       /\ store'[nextId].current_stage = "Intake")
            /\ handleSubmitDemand(s)
                   => (store'[nextId].status = "Under Review"
                       /\ store'[nextId].current_stage = "Screening")
       /\ \A id \in DemandIds :
            (store[id].id = 0 /\ store'[id].id # 0)
            => <<store'[id].status, store'[id].current_stage>>
                  \in {<<"Draft", "Intake">>, <<"Under Review", "Screening">>}]_vars

C12_Witness ==
    \E id \in DemandIds, s \in Sessions :
        /\ store[id].status = "Under Review"
        /\ store[id].current_stage = "Screening"
        /\ approvalChain[id] = << >>
        /\ demands[s][id] = store[id]
        /\ \E o \in ops : o.kind = "reload" /\ o.sess = s

\* C19: when the call of updateDemand made by an approve or a reject fails,
\* at its read or at its write, the acting session is shown a failure alert
\* (never a success alert), no new call is made, and the store, the local
\* lists and the selected demands stay as they were.
C19_FailureLeavesState ==
    [][\A o \in ops :
         (httpFails(o) /\ o.kind \in {"approve", "reject"})
         => /\ alert'.sess = o.sess
            /\ alert'.text = (IF o.kind = "approve" THEN "Approval failed"
                               ELSE "Reject failed")
            /\ alert'.text \notin {"Approved.", "Demand rejected."}
            /\ ops' = ops \ {o}
            /\ store' = store
            /\ demands' = demands
            /\ selectedDemand' = selectedDemand]_vars

C19_Witness ==
    \E id \in DemandIds :
        /\ alert.text = "Approval failed"
        /\ store[id].status = "Under Review"
        /\ store[id].current_stage = "Screening"
        /\ selectedDemand[alert.sess] = store[id]
        /\ pendingUpdates(alert.sess) = {}

\* C20: the write of an approve whose updateDemand read the stage its session
\* had read before is accepted whatever the store holds by then: it stores the
\* stage one flow step past the stage read and is reported to its session as a
\* success.  Of two approves that read the same stage the second overwrites
\* the first, and the stage ends one step ahead, not two.
C20_ConcurrentApprove ==
    [][\A o \in ops :
         ( /\ putDemand(o)
           /\ o.kind = "approve"
           /\ o.cur.current_stage = currentStageOf(o.snap) )
         => /\ store'[o.id].current_stage
                  = FlowKeys[Min(TableFlowIndex(o.cur.current_stage) + 1, 4) + 1]
            /\ ops' = ops \ {o}
            /\ alert' = Alert(o.sess, "Approved.")]_vars

C20_Witness ==
    \E o \in ops :
        /\ o.kind = "approve" /\ o.phase = "put"
        /\ o.cur.current_stage = "Screening"
        /\ o.snap.current_stage = "Screening"
        /\ store[o.id].current_stage = "Assessment"
        /\ store[o.id].status = "Under Review"
        /\ alert.text = "Approved."
        /\ alert.sess # o.sess

\* C21: approve and reject re-verify the guard and fail closed: the store
\* write of an approve or a reject leaves the store as it is unless the guard
\* holds for the acting role on the row stored at the time of the write, and
\* the write of an approve started from a copy whose status or stage differs
\* from the stored ones leaves the store as it is.
C21_WriteReverifiesGuard ==
    [][\A o \in ops :
         (putDemand(o) /\ o.kind \in {"approve", "reject"})
         => /\ (~userCanActOnSelected(store[o.id], o.role) => store' = store)
            /\ ( ( /\ o.kind = "approve"
                    /\ \/ o.snap.status # store[o.id].status
                       \/ EffectiveStage(o.snap) # store[o.id].current_stage )
                  => store' = store )]_vars

\* C22: the acting role is the role chosen in the role switcher, which every
\* user, signed in or not and whatever roles the user context holds, can set
\* to each of the four roles; the guard, the approval queue and the rows an
\* approve or a reject stores are determined by the demand and the chosen role
\* alone.
C22_ActingRoleIsSelected ==
    fnArg.rbac # NoContext =>
        /\ fnRes.op = "setCurrentRole" => fnRes.value \in Role
        /\ fnRes.op \in {"canAct", "queue"} =>
               (fnRes.value <=>
                   /\ fnArg.demand.id # 0
                   /\ TableRole(EffectiveStage(fnArg.demand)) = fnArg.role
                   /\ fnArg.demand.status \in Actionable)
        /\ fnRes.op = "approve" =>
               /\ fnRes.value.current_stage
                     = FlowKeys[Min(TableFlowIndex(EffectiveStage(fnArg.demand)) + 1, 4) + 1]
               /\ fnRes.value.status
                     = (IF TableFlowIndex(EffectiveStage(fnArg.demand)) >= 3
                        THEN "Approved" ELSE "Under Review")
        /\ fnRes.op = "reject" =>
               /\ fnRes.value.status = "Rejected"
               /\ fnRes.value.current_stage = fnArg.demand.current_stage

C22_Witness ==
    /\ fnRes.op = "canAct"
    /\ fnRes.value = TRUE
    /\ ~fnArg.rbac.isAuthenticated
    /\ fnArg.rbac.roles = << >>
    /\ fnArg.rbac # NoContext
    /\ fnArg.role = "DBR"
    /\ fnArg.demand.current_stage = "Authorization"

\* C23: a demand is listed in the approval queue of a role exactly when the
\* guard holds for it and that role, and the Approve / Reject controls are
\* offered for it exactly when the guard holds, under either stage field name
\* and for a null or empty stage.
C23_QueueAndControlsFollowGuard ==
    /\ fnRes.op = "queue"
           => (fnRes.value <=> userCanActOnSelected(fnArg.demand, fnArg.role))
    /\ (fnRes.op = "controls" /\ fnArg.demand.id # 0)
           => (fnRes.value <=> userCanActOnSelected(fnArg.demand, fnArg.role))

\* the approval-flow key a variant differs from in case or surrounding blanks
\* only
FlowVariants ==
    {"intake", "INTAKE", "screening", "SCREENING", " Screening ", "AUTHORIZATION",
     "Service portfolio entry"}

CanonicalKey(k) ==
    CASE k \in {"intake", "INTAKE"} -> "Intake"
      [] k \in {"screening", "SCREENING", " Screening "} -> "Screening"
      [] k = "AUTHORIZATION" -> "Authorization"
      [] k = "Service portfolio entry" -> "Service Portfolio Entry"
      [] OTHER -> k

\* C24: both resolvers ignore case and surrounding blanks: for every variant
\* of an approval-flow key, stageIndex returns the flow index of the key and
\* buildWorkflow resolves the table position of the key.
C24_ResolutionIgnoresCase ==
    /\ (fnRes.op = "stageIndex" /\ fnArg.key \in FlowVariants)
           => fnRes.value = TableFlowIndex(CanonicalKey(fnArg.key))
    /\ (fnRes.op = "buildWorkflow" /\ fnArg.key \in FlowVariants)
           => fnRes.value[TablePosition(CanonicalKey(fnArg.key)) + 1].current

StageTableKeys ==
    {"Intake", "Screening", "Assessment", "Evaluation", "Authorization",
     "Business Case Development", "Service Portfolio Entry",
     "Service Implementation/Monitoring", "Closure"}

\* C25: the stages of the approval flow are keys of the stage table in the
\* same relative order, and an approve offered on a demand at any of the 9
\* stage-table keys stores a stage whose table position is not lower than the
\* position of the demand's stage.
C25_ApproveNeverMovesBack ==
    /\ \A i, j \in 1..Len(STAGE_FLOW) :
           /\ STAGE_FLOW[i].stage \in StageTableKeys
           /\ i < j => TablePosition(STAGE_FLOW[i].stage) < TablePosition(STAGE_FLOW[j].stage)
    /\ ( /\ fnRes.op = "approve"
          /\ EffectiveStage(fnArg.demand) \in StageTableKeys
          /\ ControlsOffered(fnArg.demand, fnArg.role) )
        => TablePosition(fnRes.value.current_stage)
              >= TablePosition(EffectiveStage(fnArg.demand))

\* C26: every stored demand whose status is Submitted or Under Review has a
\* role of the role switcher for which the Approve / Reject controls are
\* offered.
C26_AlwaysActionable ==
    \A id \in DemandIds :
        store[id].status \in Actionable
        => \E r \in Role : ControlsOffered(store[id], r)

C26_Witness ==
    \E id \in DemandIds :
        /\ store[id].status = "Under Review"
        /\ store[id].current_stage = "Authorization"
        /\ ControlsOffered(store[id], "DBR")
        /\ Len(approvalChain[id]) = 2

\* the application role each token role stands for
AppRoleOf(aadRole) ==
    CASE aadRole = "DemandRequestor" -> "Demand Requestor"
      [] aadRole = "BUHead" -> "BU Head"
      [] aadRole = "ITPMO" -> "ITPMO"
      [] aadRole = "DBR" -> "DBR"
      [] aadRole = "Admin" -> "Admin"

\* C27: for a signed-in user the roles of the user context are not empty and
\* hold the application role of every role of the token's roles claim, and
\* Demand Requestor when the token carries no role; for a user who is not
\* signed in they are empty.
C27_ContextRolesFollowToken ==
    fnRes.op = "RBACProvider" =>
        IF fnArg.account.signedIn
        THEN /\ fnRes.value.roles # << >>
             /\ fnArg.account.roles # NoClaim
                    => \A a \in fnArg.account.roles :
                          includes(fnRes.value.roles, AppRoleOf(a))
             /\ (fnArg.account.roles = NoClaim \/ fnArg.account.roles = {})
                    => includes(fnRes.value.roles, "Demand Requestor")
        ELSE fnRes.value.roles = << >>

TablePermissions(role) ==
    CASE role = "Demand Requestor" -> {"demand.create", "demand.read", "demand.update"}
      [] role = "BU Head" -> {"demand.create", "demand.read", "demand.update",
                              "demand.approve", "demand.reject", "reports.view"}
      [] role \in {"ITPMO", "DBR"} ->
             {"demand.create", "demand.read", "demand.update", "demand.approve",
              "demand.reject", "demand.assign", "reports.view", "reports.export"}
      [] role = "Admin" -> Permission

Holds(rbac, p) == \E i \in 1..Len(rbac.roles) : p \in TablePermissions(rbac.roles[i])

\* C29: secureCall starts the call exactly when the user is authenticated,
\* holds the required permission and passes the resource check when there is
\* one; otherwise the call is not started and the error is 'Authentication
\* required', else 'Insufficient permissions', else 'Access denied to this
\* resource', in this order of precedence.
C29_SecureCallOrder ==
    fnRes.op = "secureCall" =>
        LET p == fnRes.value.requiredPermission
            check == fnRes.value.resourceCheck
            result == fnRes.value.result
        IN  /\ result.started <=> ( /\ fnArg.rbac.isAuthenticated
                                    /\ Holds(fnArg.rbac, p)
                                    /\ check \in {Absent, "passes"} )
            /\ result.error =
                   (IF ~fnArg.rbac.isAuthenticated THEN "Authentication required"
                    ELSE IF ~Holds(fnArg.rbac, p) THEN "Insufficient permissions"
                    ELSE IF check = "fails" THEN "Access denied to this resource"
                    ELSE Null)

C29_Witness ==
    /\ fnRes.op = "secureCall"
    /\ ~fnArg.rbac.isAuthenticated
    /\ fnRes.value.resourceCheck = "fails"
    /\ ~fnRes.value.result.started
    /\ fnRes.value.result.error = "Authentication required"

\* the demand is the user's own
OwnDemand(rbac, d) == d.requestor = rbac.name \/ d.requestor = rbac.email

\* C30: a user without admin.system can modify a demand only if it is the
\* user's own and its status is Draft; a user who is not signed in can modify
\* no demand and access no demand.
C30_ModifyOwnDraftOnly ==
    /\ ( /\ fnRes.op = "canModifyDemand"
          /\ fnRes.value
          /\ ~Holds(fnArg.rbac, "admin.system") )
        => (OwnDemand(fnArg.rbac, fnArg.demand) /\ fnArg.demand.status = "Draft")
    /\ (fnRes.op \in {"canModifyDemand", "canAccessDemand"}
           /\ ~fnArg.rbac.isAuthenticated)
        => ~fnRes.value

\* the entry of a role in the role table
RoleConfig(r) == ROLE_PERMISSIONS[CHOOSE i \in 1..Len(ROLE_PERMISSIONS) :
                                     ROLE_PERMISSIONS[i].role = r]

Range(seq) == {seq[i] : i \in 1..Len(seq)}

\* the roles reachable from a set of roles through inherits in at most n steps
RECURSIVE ReachWithin(_, _)
ReachWithin(S, n) ==
    IF n = 0 THEN S
    ELSE ReachWithin(S \cup UNION {Range(RoleConfig(r).inherits) : r \in S}, n - 1)

\* the union of the own permissions of a role and of every role it reaches
UnionOfReachable(r) ==
    UNION {Range(RoleConfig(q).permissions) :
              q \in ReachWithin({r}, Len(ROLE_PERMISSIONS))}

RoleChain == <<"Demand Requestor", "BU Head", "ITPMO", "DBR", "Admin">>

\* C31: getRolePermissions returns, for every role, an array without
\* duplicates whose elements are exactly the own permissions of the role and
\* of every role reachable through inherits; the permission sets do not
\* shrink along Demand Requestor, BU Head, ITPMO, DBR, Admin; hasPermission
\* holds exactly when the permission is in that union for a role of the user.
C31_PermissionsAreInheritedUnion ==
    /\ fnRes.op = "getRolePermissions" =>
           LET perms == fnRes.value.permissions
           IN  /\ \A i, j \in 1..Len(perms) : perms[i] = perms[j] => i = j
               /\ Range(perms) = UnionOfReachable(fnRes.value.role)
               /\ \A k \in 1..Len(RoleChain) :
                      fnRes.value.role = RoleChain[k] =>
                         \A m \in 1..k :
                            Range(getRolePermissions(RoleChain[m])) \subseteq Range(perms)
    /\ fnRes.op = "hasPermission" =>
           (fnRes.value.result <=>
               \E i \in 1..Len(fnArg.rbac.roles) :
                  fnRes.value.permission \in UnionOfReachable(fnArg.rbac.roles[i]))

C31_Witness ==
    /\ fnRes.op = "getRolePermissions"
    /\ fnRes.value.role = "DBR"
    /\ Len(fnRes.value.permissions) = 8
    /\ includes(fnRes.value.permissions, "demand.create")
    /\ includes(fnRes.value.permissions, "demand.assign")

\* the message a JSON error body carries: its message field, else its error
\* field (Null for a body that carries neither)
CarriedMessage(body) ==
    CASE body = JsonMessageBody -> "not found"
      [] body = JsonErrorBody -> "denied"
      [] body = JsonBothBody -> "invalid"
      [] body = JsonLongBody -> "quota"
      [] OTHER -> Null

HtmlBodies == {HtmlBody, DoctypeBody}

\* C32: for a response that is not OK, http fails with the text 'HTTP
\* <status>: ' followed by the message of a JSON body that carries a message
\* or error field, and with the 'Server returned HTML instead of JSON' text
\* for an HTML body; a 204 response yields no value and no error.
C32_HttpErrorText ==
    fnRes.op = "http" =>
        LET res == fnArg.response
            ok == res.status \in 200..299
        IN  /\ (~ok /\ CarriedMessage(res.body) # Null)
                   => /\ fnRes.value.error.status = res.status
                      /\ fnRes.value.error.text = CarriedMessage(res.body)
            /\ (~ok /\ res.body \in HtmlBodies)
                   => /\ fnRes.value.error.status = res.status
                      /\ fnRes.value.error.text = "Server returned HTML instead of JSON"
            /\ res.status = 204
                   => (fnRes.value.value = NoValue /\ fnRes.value.error = NoError)

\* the steps that send a delete to the store for the call o
SendsDelete(o) == deleteDemand(o) \/ softDeleteDemand(o)

\* the steps that end the call o of handleDelete
EndsDelete(o) ==
    \/ deleteDemandFails(o, FALSE)
    \/ softDeleteDemandFails(o)
    \/ \E answered \in BOOLEAN : reloadAfterDelete(o, answered)

\* C33: a delete, hard or soft, reaches the store only for a demand handed to
\* handleDelete with status Draft, and when a call of handleDelete ends with
\* the demand still in the store, the demand is in the list the session
\* displays.
C33_DeleteDraftOnlyAndRollsBack ==
    [][\A o \in ops :
         /\ SendsDelete(o) => o.cur.status = "Draft"
         /\ (EndsDelete(o) /\ store'[o.id].id # 0) => demands'[o.sess][o.id].id # 0]_vars

====
